---- MODULE Spec2Model ----
(***************************************************************************)
(* md-inject: a model of main.go.  One run of the tool reads standard      *)
(* input and the target file, applies a template to the input, injects the *)
(* result between a pair of tags and then reports, prints or writes.       *)
(*                                                                         *)
(* A Go string is a sequence of one-character strings, so that searching,  *)
(* slicing and formatting are computed on the characters.                  *)
(***************************************************************************)
EXTENDS Integers, Sequences, FiniteSets, TLC

(***************************************************************************)
(* Constants of main.go                                                    *)
(***************************************************************************)
tagStartFormat ==
  <<"<","!","-","-"," ","S","T","A","R","T"," ","m","d","-","i","n","j","e","c","t",":","%","s"," ","-","-",">">>

tagEndFormat ==
  <<"<","!","-","-"," ","E","N","D"," ","m","d","-","i","n","j","e","c","t",":","%","s"," ","-","-",">">>

defaultOutputTemplate ==
  <<"{"," ",".","s","t","d","i","n"," ","}">>

defaultTagID ==
  <<"d","e","f","a","u","l","t">>

(***************************************************************************)
(* Library functions the program calls, computed as the library does       *)
(***************************************************************************)

\* strings.Index: the position (from 0) of the first occurrence of substr
\* in s, or -1 when there is none.
Index(s, substr) ==
  LET hits == {i \in 0..(Len(s) - Len(substr)) :
                  SubSeq(s, i + 1, i + Len(substr)) = substr}
  IN  IF hits = {} THEN -1
      ELSE CHOOSE i \in hits : \A j \in hits : i <= j

\* fmt.Sprintf restricted to the %s verb: every %s is replaced by the next
\* operand, every other character is copied.  Every call site of the program
\* passes exactly as many operands as the format has verbs.
RECURSIVE Sprintf(_, _)
Sprintf(format, a) ==
  IF format = <<>> THEN <<>>
  ELSE IF Len(format) >= 2 /\ format[1] = "%" /\ format[2] = "s"
       THEN a[1] \o Sprintf(SubSeq(format, 3, Len(format)), Tail(a))
       ELSE <<format[1]>> \o Sprintf(Tail(format), a)

\* original[:n] and original[n:] of Go
SliceTo(s, n) == SubSeq(s, 1, n)

SliceFrom(s, n) == SubSeq(s, n + 1, Len(s))

(***************************************************************************)
(* text/template, for the templates of the model: text outside {{ }} is    *)
(* copied; an action is a chain of fields evaluated on the data map.       *)
(***************************************************************************)
leftDelim == <<"{","{">>

rightDelim == <<"}","}">>

RECURSIVE TrimSpace(_)
TrimSpace(s) ==
  IF s = <<>> THEN s
  ELSE IF Head(s) = " " THEN TrimSpace(Tail(s))
  ELSE IF s[Len(s)] = " " THEN TrimSpace(SubSeq(s, 1, Len(s) - 1))
  ELSE s

\* the field names of a chain ".a.b": <<a, b>>
RECURSIVE Fields(_)
Fields(chain) ==
  IF chain = <<>> THEN <<>>
  ELSE LET rest == Tail(chain)
           dot  == Index(rest, <<".">>)
       IN  IF dot < 0 THEN <<rest>>
           ELSE <<SliceTo(rest, dot)>> \o Fields(SliceFrom(rest, dot))

\* an action the parser accepts here: a chain of non-empty field names
IsFieldChain(body) ==
  /\ body # <<>>
  /\ Head(body) = "."
  /\ \A k \in 1..Len(body) : body[k] # " "
  /\ \A k \in 1..Len(Fields(body)) : Fields(body)[k] # <<>>

TextNode(text) == [type |-> "text", text |-> text, fields |-> <<>>]

ActionNode(fields) == [type |-> "action", text |-> <<>>, fields |-> fields]

ParseError == [err |-> TRUE, nodes |-> <<>>]

\* template.Parse: the list of nodes of the source, or a parse error for an
\* action that is not closed or is no field chain.
RECURSIVE Parse(_)
Parse(src) ==
  LET open == Index(src, leftDelim)
  IN  IF open < 0
      THEN [err |-> FALSE, nodes |-> IF src = <<>> THEN <<>> ELSE <<TextNode(src)>>]
      ELSE LET after == SliceFrom(src, open + Len(leftDelim))
               close == Index(after, rightDelim)
           IN  IF close < 0 THEN ParseError
               ELSE LET body == TrimSpace(SliceTo(after, close))
                        rest == Parse(SliceFrom(after, close + Len(rightDelim)))
                        text == IF open = 0 THEN <<>> ELSE <<TextNode(SliceTo(src, open))>>
                    IN  IF ~IsFieldChain(body) \/ rest.err THEN ParseError
                        ELSE [err |-> FALSE,
                              nodes |-> text \o <<ActionNode(Fields(body))>> \o rest.nodes]

stdinKey == <<"s","t","d","i","n">>

noValue == <<"<","n","o"," ","v","a","l","u","e",">">>

\* Template.Execute on the data map {"stdin": content}: a key of the map
\* gives its value, a missing key prints <no value>, and a field of the
\* string value cannot be evaluated.
RECURSIVE Execute(_, _)
Execute(nodes, content) ==
  IF nodes = <<>> THEN [err |-> FALSE, out |-> <<>>]
  ELSE LET n    == Head(nodes)
           rest == Execute(Tail(nodes), content)
           this == IF n.type = "text" THEN [err |-> FALSE, out |-> n.text]
                   ELSE IF Len(n.fields) > 1 THEN [err |-> TRUE, out |-> <<>>]
                   ELSE IF n.fields[1] = stdinKey THEN [err |-> FALSE, out |-> content]
                   ELSE [err |-> FALSE, out |-> noValue]
       IN  IF this.err \/ rest.err THEN [err |-> TRUE, out |-> <<>>]
           ELSE [err |-> FALSE, out |-> this.out \o rest.out]

(***************************************************************************)
(* Functions of main.go                                                    *)
(***************************************************************************)
NoError == [msg |-> "", arg |-> <<>>]

\* applyTemplate(tmpl, content) (string, error)
applyTemplate(tmpl, content) ==
  LET t == Parse(tmpl)
  IN  IF t.err THEN [out |-> <<>>, err |-> [msg |-> "template: parse", arg |-> tmpl]]
      ELSE LET output == Execute(t.nodes, content)
           IN  IF output.err
               THEN [out |-> <<>>, err |-> [msg |-> "template: execute", arg |-> tmpl]]
               ELSE [out |-> output.out, err |-> NoError]

\* a mutation of appendContent: no line break between the text and the start tag
appendContentNoBreak(original, addition, startTag, endTag) ==
  Sprintf(<<"%","s","%","s","\n","%","s","\n","%","s","\n">>,
          <<original, startTag, addition, endTag>>)

\* both tags missing - append the content
appendContent(original, addition, startTag, endTag) ==
  Sprintf(<<"%","s","\n","%","s","\n","%","s","\n","%","s","\n">>,
          <<original, startTag, addition, endTag>>)

\* a mutation of replaceContent: the addition is put right before the end tag
replaceContentNoBreak(original, addition, startTag, endTag, startTagPos, endTagPos) ==
  Sprintf(<<"%","s","\n","%","s","%","s">>,
          <<SliceTo(original, startTagPos + Len(startTag)),
            addition,
            SliceFrom(original, endTagPos)>>)

\* a mutation of replaceContent: the text is cut after the end tag
replaceContentAfterEndTag(original, addition, startTag, endTag, startTagPos, endTagPos) ==
  Sprintf(<<"%","s","\n","%","s","\n","%","s">>,
          <<SliceTo(original, startTagPos + Len(startTag)),
            addition,
            SliceFrom(original, endTagPos + Len(endTag))>>)

\* both tags are found where they should - inject content
replaceContent(original, addition, startTag, endTag, startTagPos, endTagPos) ==
  Sprintf(<<"%","s","\n","%","s","\n","%","s">>,
          <<SliceTo(original, startTagPos + Len(startTag)),
            addition,
            SliceFrom(original, endTagPos)>>)

missingStartTag(startTag) ==
  [msg |-> "missing start tag %s while end tag is present", arg |-> startTag]

\* a mutation of missingEndTag: the message of the other error
missingEndTagAsStart(endTag) ==
  [msg |-> "missing start tag %s while end tag is present", arg |-> endTag]

missingEndTag(endTag) ==
  [msg |-> "missing end tag %s while start tag is present", arg |-> endTag]

tagOrder == [msg |-> "end tag is before the start tag", arg |-> <<>>]

\* injectContent(original, addition, startTag, endTag) (string, error)
injectContent(original, addition, startTag, endTag) ==
  LET startTagPos == Index(original, startTag)
      endTagPos   == Index(original, endTag)
  IN  IF startTagPos < 0 /\ endTagPos < 0
      THEN [out |-> appendContent(original, addition, startTag, endTag),
            err |-> NoError]
      ELSE IF startTagPos < 0
      THEN [out |-> <<>>, err |-> missingStartTag(startTag)]
      ELSE IF endTagPos < 0
      THEN [out |-> <<>>, err |-> missingEndTag(endTag)]
      ELSE IF startTagPos > startTagPos
      THEN [out |-> <<>>, err |-> tagOrder]
      ELSE [out |-> replaceContent(original, addition, startTag, endTag,
                                   startTagPos, endTagPos),
            err |-> NoError]

(***************************************************************************)
(* Inputs of a run                                                         *)
(***************************************************************************)
\* the number of tags a target file of the model holds at most
MaxTags == 2

\* the number of successive runs of the tool on the same file
MaxRuns == 2

StdinTemplate ==
  <<"{","{"," ",".","s","t","d","i","n"," ","}","}">>

UnclosedTemplate ==
  <<"{","{"," ",".","s","t","d","i","n">>

FieldOfStringTemplate ==
  <<"{","{"," ",".","s","t","d","i","n",".","x"," ","}","}">>

\* the values given to --template (<<>>: the option is not given)
TemplateOptions ==
  {<<>>, <<StdinTemplate>>, <<UnclosedTemplate>>, <<FieldOfStringTemplate>>}

\* the values given to --id
IdOptions == {<<>>, <<(<<"x">>)>>}

Filename == <<"f",".","m","d">>

DefaultStartTag == Sprintf(tagStartFormat, <<defaultTagID>>)

DefaultEndTag == Sprintf(tagEndFormat, <<defaultTagID>>)

\* what standard input holds: plain text, or text that is itself a tag
StdinTexts == {<<"n","e","w">>, DefaultStartTag, DefaultEndTag}

\* how a target file starts: empty, or with a line of text
Heads == {<<>>, <<"A","\n">>}

Texts == {<<"\n","o","l","d","\n">>, <<"\n","B","\n">>}

\* the target files: a head, then up to n times a tag of the default id and text
RECURSIVE Documents(_)
Documents(n) ==
  IF n = 0 THEN Heads
  ELSE Documents(n - 1) \cup
       {d \o tag \o t : d \in Documents(n - 1),
                        tag \in {DefaultStartTag, DefaultEndTag},
                        t \in Texts}

\* the command lines: well-formed ones with every combination of options,
\* one without the FILE argument, one with an undefined flag, one with -help
Argvs ==
  [flags : {"ok"}, id : IdOptions, failOnDiff : BOOLEAN, printOnly : BOOLEAN,
   template : TemplateOptions, args : {<<Filename>>}]
  \cup
  [flags : {"ok", "undefined", "help"}, id : {<<>>}, failOnDiff : {FALSE},
   printOnly : {FALSE}, template : {<<>>}, args : {<<>>}]

(***************************************************************************)
(* State                                                                   *)
(***************************************************************************)
VARIABLES
  argv,             \* os.Args, as the options and arguments it gives
  stdin,            \* the content of standard input
  file,             \* the target file on disk: [exists, data]
  run,              \* the number of the current run of the tool
  pc,               \* the position of main
  cfg,              \* the config parseArgs returns
  contentToInject,  \* locals of main
  oldContent,
  startTag,
  endTag,
  updatedContent,
  err,
  stdout,           \* what the run printed to standard output
  stderr,           \* what the run printed to standard error
  exitCode,         \* the status of os.Exit, -1 while the run goes on
  outcome           \* the place where main ended

vars == <<argv, stdin, file, run, pc, cfg, contentToInject, oldContent, startTag,
          endTag, updatedContent, err, stdout, stderr, exitCode, outcome>>

locals == <<cfg, contentToInject, oldContent, startTag, endTag, updatedContent, err>>

NoConfig ==
  [ID |-> <<>>, failOnDiff |-> FALSE, printOnly |-> FALSE, template |-> <<>>,
   filename |-> <<>>]

Line(msg, arg) == [msg |-> msg, arg |-> arg]

Init ==
  /\ argv \in Argvs
  /\ stdin \in StdinTexts
  /\ file \in [exists : {TRUE}, data : Documents(MaxTags)]
              \cup {[exists |-> FALSE, data |-> <<>>]}
  /\ run = 1
  /\ pc = "start"
  /\ cfg = NoConfig
  /\ contentToInject = <<>>
  /\ oldContent = <<>>
  /\ startTag = <<>>
  /\ endTag = <<>>
  /\ updatedContent = <<>>
  /\ err = NoError
  /\ stdout = <<>>
  /\ stderr = <<>>
  /\ exitCode = -1
  /\ outcome = "running"

\* os.Exit(code) at the place `where`
Exit(code, where) ==
  /\ pc' = "exited"
  /\ exitCode' = code
  /\ outcome' = where

(***************************************************************************)
(* Steps of main                                                           *)
(***************************************************************************)
\* parseArgs: flag.Parse on the default flag set (ExitOnError) ends the
\* process with status 2 on an undefined flag and 0 on -help.
parseArgs ==
  /\ pc = "start"
  /\ \/ /\ argv.flags = "undefined"
        /\ stderr' = stderr \o <<Line("flag provided but not defined", <<>>)>>
        /\ Exit(2, "flagError")
        /\ UNCHANGED cfg
     \/ /\ argv.flags = "help"
        /\ stderr' = stderr \o <<Line("usage", <<>>)>>
        /\ Exit(0, "help")
        /\ UNCHANGED cfg
     \/ /\ argv.flags = "ok"
        /\ Len(argv.args) < 1
        /\ stderr' = stderr \o <<Line("Error: Please specify a target file", <<>>),
                                 Line("usage", <<>>)>>
        /\ Exit(1, "usage")
        /\ UNCHANGED cfg
     \/ /\ argv.flags = "ok"
        /\ Len(argv.args) >= 1
        /\ cfg' = [ID         |-> IF argv.id = <<>> THEN defaultTagID ELSE argv.id[1],
                   failOnDiff |-> argv.failOnDiff,
                   printOnly  |-> argv.printOnly,
                   template   |-> IF argv.template = <<>> THEN defaultOutputTemplate
                                  ELSE argv.template[1],
                   filename   |-> argv.args[1]]
        /\ pc' = "readStdin"
        /\ UNCHANGED <<stderr, exitCode, outcome>>
  /\ UNCHANGED <<argv, stdin, file, run, contentToInject, oldContent, startTag,
                 endTag, updatedContent, err, stdout>>

\* readStdin: io.ReadAll gives the whole input, or fails
readStdin ==
  /\ pc = "readStdin"
  /\ \/ /\ contentToInject' = stdin
        /\ pc' = "fileContent"
        /\ UNCHANGED <<err, stderr, exitCode, outcome>>
     \/ /\ err' = [msg |-> "reading stdin: %w", arg |-> <<>>]
        /\ stderr' = stderr \o <<Line("Error reading stdin: %v", <<>>)>>
        /\ Exit(1, "stdinError")
        /\ UNCHANGED contentToInject
  /\ UNCHANGED <<argv, stdin, file, run, cfg, oldContent, startTag, endTag,
                 updatedContent, stdout>>

\* fileContent: os.ReadFile fails on a file that does not exist
fileContent ==
  /\ pc = "fileContent"
  /\ \/ /\ file.exists
        /\ oldContent' = file.data
        /\ pc' = "applyTemplate"
        /\ UNCHANGED <<err, stderr, exitCode, outcome>>
     \/ /\ ~file.exists
        /\ err' = [msg |-> "open: no such file or directory", arg |-> cfg.filename]
        /\ stderr' = stderr \o <<Line("Error reading file: %v", cfg.filename)>>
        /\ Exit(1, "fileError")
        /\ UNCHANGED oldContent
  /\ UNCHANGED <<argv, stdin, file, run, cfg, contentToInject, startTag, endTag,
                 updatedContent, stdout>>

\* contentToInject, err = applyTemplate(cfg.template, contentToInject)
ApplyTemplate ==
  /\ pc = "applyTemplate"
  /\ LET r == applyTemplate(cfg.template, contentToInject)
     IN  /\ contentToInject' = r.out
         /\ err' = r.err
         /\ IF r.err # NoError
            THEN /\ stderr' = stderr \o <<Line("Error applying template: %v", cfg.template)>>
                 /\ Exit(1, "templateError")
            ELSE /\ pc' = "injectContent"
                 /\ UNCHANGED <<stderr, exitCode, outcome>>
  /\ UNCHANGED <<argv, stdin, file, run, cfg, oldContent, startTag, endTag,
                 updatedContent, stdout>>

\* the tags of cfg.ID and updatedContent, err := injectContent(...)
InjectContent ==
  /\ pc = "injectContent"
  /\ LET st == Sprintf(tagStartFormat, <<cfg.ID>>)
         en == Sprintf(tagEndFormat, <<cfg.ID>>)
         r  == injectContent(oldContent, contentToInject, st, en)
     IN  /\ startTag' = st
         /\ endTag' = en
         /\ updatedContent' = r.out
         /\ err' = r.err
         /\ IF r.err # NoError
            THEN /\ stderr' = stderr \o <<Line("Error: %v", r.err.arg)>>
                 /\ Exit(1, "injectError")
            ELSE /\ pc' = "decide"
                 /\ UNCHANGED <<stderr, exitCode, outcome>>
  /\ UNCHANGED <<argv, stdin, file, run, cfg, contentToInject, oldContent, stdout>>

\* nothing is changed, nothing to do
NoOp ==
  /\ pc = "decide"
  /\ oldContent = updatedContent
  /\ stdout' = stdout \o <<Line("No content change needed for %s, nothing to do!", cfg.filename)>>
  /\ Exit(0, "noop")
  /\ UNCHANGED <<argv, stdin, file, run, locals, stderr>>

\* a mutation of FailOnDiff: the status of the other errors
FailOnDiffExitsOne ==
  /\ pc = "decide"
  /\ oldContent # updatedContent
  /\ cfg.failOnDiff
  /\ stderr' = stderr \o <<Line("%s would be changed. The file is out of date.", cfg.filename)>>
  /\ Exit(1, "wouldChange")
  /\ UNCHANGED <<argv, stdin, file, run, locals, stdout>>

\* fail if --fail-on-diff is set
FailOnDiff ==
  /\ pc = "decide"
  /\ oldContent # updatedContent
  /\ cfg.failOnDiff
  /\ stderr' = stderr \o <<Line("%s would be changed. The file is out of date.", cfg.filename)>>
  /\ Exit(2, "wouldChange")
  /\ UNCHANGED <<argv, stdin, file, run, locals, stdout>>

\* a mutation of PrintOnly: --print-only is looked at before --fail-on-diff
PrintOnlyFirst ==
  /\ pc = "decide"
  /\ oldContent # updatedContent
  /\ cfg.printOnly
  /\ stdout' = stdout \o <<Line("%v", updatedContent)>>
  /\ Exit(0, "printed")
  /\ UNCHANGED <<argv, stdin, file, run, locals, stderr>>

\* print to stdout if --print-only is set
PrintOnly ==
  /\ pc = "decide"
  /\ oldContent # updatedContent
  /\ ~cfg.failOnDiff
  /\ cfg.printOnly
  /\ stdout' = stdout \o <<Line("%v", updatedContent)>>
  /\ Exit(0, "printed")
  /\ UNCHANGED <<argv, stdin, file, run, locals, stderr>>

\* update the file: os.WriteFile replaces the content, or fails before or
\* after it has truncated the file
WriteFile ==
  /\ pc = "decide"
  /\ oldContent # updatedContent
  /\ ~cfg.failOnDiff
  /\ ~cfg.printOnly
  /\ \/ /\ file' = [file EXCEPT !.data = updatedContent]
        /\ stdout' = stdout \o <<Line("%s successfully updated!", cfg.filename)>>
        /\ Exit(0, "written")
        /\ UNCHANGED <<err, stderr>>
     \/ /\ file' \in {file, [file EXCEPT !.data = <<>>]}
        /\ err' = [msg |-> "write", arg |-> cfg.filename]
        /\ stderr' = stderr \o <<Line("Error writing to file %s: %v", cfg.filename)>>
        /\ Exit(1, "writeError")
        /\ UNCHANGED stdout
  /\ UNCHANGED <<argv, stdin, run, cfg, contentToInject, oldContent, startTag,
                 endTag, updatedContent>>

\* The tool is run again on the file it has written, with the same standard
\* input, template and id, and any choice of --fail-on-diff and --print-only.
\* (A run that does not write leaves the file as it was, so the run after it
\* is a first run.)
Rerun ==
  /\ pc = "exited"
  /\ outcome = "written"
  /\ run < MaxRuns
  /\ \E f \in BOOLEAN, p \in BOOLEAN :
        argv' = [argv EXCEPT !.failOnDiff = f, !.printOnly = p]
  /\ run' = run + 1
  /\ pc' = "start"
  /\ cfg' = NoConfig
  /\ contentToInject' = <<>>
  /\ oldContent' = <<>>
  /\ startTag' = <<>>
  /\ endTag' = <<>>
  /\ updatedContent' = <<>>
  /\ err' = NoError
  /\ stdout' = <<>>
  /\ stderr' = <<>>
  /\ exitCode' = -1
  /\ outcome' = "running"
  /\ UNCHANGED <<stdin, file>>

Next ==
  \/ parseArgs
  \/ readStdin
  \/ fileContent
  \/ ApplyTemplate
  \/ InjectContent
  \/ NoOp
  \/ FailOnDiff
  \/ PrintOnly
  \/ WriteFile
  \/ Rerun

Spec == Init /\ [][Next]_vars

(***************************************************************************)
(* Properties                                                              *)
(***************************************************************************)
\* the positions (from 0) at which sub occurs in s
Occurrences(s, sub) ==
  {p \in 0..(Len(s) - Len(sub)) : \A k \in 1..Len(sub) : s[p + k] = sub[k]}

Present(s, sub) == Occurrences(s, sub) # {}

First(s, sub) ==
  CHOOSE p \in Occurrences(s, sub) : \A q \in Occurrences(s, sub) : p <= q

\* injectContent has just returned: the locals of main hold its operands
\* (oldContent, contentToInject, startTag, endTag) and results
\* (updatedContent, err)
Called == pc = "decide" \/ (pc = "exited" /\ outcome = "injectError")

\* main has reached the comparison of oldContent and updatedContent
Decided == outcome \in {"noop", "wouldChange", "printed", "written", "writeError"}

Inverted ==
  /\ Present(oldContent, startTag)
  /\ Present(oldContent, endTag)
  /\ First(oldContent, endTag) < First(oldContent, startTag)

InOrder ==
  /\ Present(oldContent, startTag)
  /\ Present(oldContent, endTag)
  /\ First(oldContent, startTag) < First(oldContent, endTag)

NL == <<"\n">>

\* "A\n<!-- START md-inject:default -->\nold\n<!-- END md-inject:default -->\nB\n"
ScenarioDocument ==
  <<"A","\n",
    "<","!","-","-"," ","S","T","A","R","T"," ","m","d","-","i","n","j","e","c","t",":",
    "d","e","f","a","u","l","t"," ","-","-",">",
    "\n","o","l","d","\n",
    "<","!","-","-"," ","E","N","D"," ","m","d","-","i","n","j","e","c","t",":",
    "d","e","f","a","u","l","t"," ","-","-",">",
    "\n","B","\n">>

\* "A\n<!-- START md-inject:default -->\nnew\n<!-- END md-inject:default -->\nB\n"
ScenarioReplaced ==
  <<"A","\n",
    "<","!","-","-"," ","S","T","A","R","T"," ","m","d","-","i","n","j","e","c","t",":",
    "d","e","f","a","u","l","t"," ","-","-",">",
    "\n","n","e","w","\n",
    "<","!","-","-"," ","E","N","D"," ","m","d","-","i","n","j","e","c","t",":",
    "d","e","f","a","u","l","t"," ","-","-",">",
    "\n","B","\n">>

\* "A\n\n<!-- START md-inject:x -->\nnew\n<!-- END md-inject:x -->\n"
ScenarioAppended ==
  <<"A","\n","\n",
    "<","!","-","-"," ","S","T","A","R","T"," ","m","d","-","i","n","j","e","c","t",":",
    "x"," ","-","-",">",
    "\n","n","e","w","\n",
    "<","!","-","-"," ","E","N","D"," ","m","d","-","i","n","j","e","c","t",":",
    "x"," ","-","-",">",
    "\n">>

\* C1: when both tags occur and the first end tag is before the first start
\* tag, injectContent fails with the tag-order error and returns no document.
C1_TagOrderError ==
  (Called /\ Inverted) =>
     /\ err = tagOrder
     /\ updatedContent = <<>>
     /\ outcome = "injectError"

\* C2 as stated: in replace mode the result is the text up to and including
\* the first start tag, a line break, the addition, and the text from the
\* first end tag on, the end tag directly after the addition.
C2_ReplaceNoSeparator ==
  (Called /\ InOrder) =>
     /\ err = NoError
     /\ updatedContent =
          SubSeq(oldContent, 1, First(oldContent, startTag) + Len(startTag))
          \o NL \o contentToInject
          \o SubSeq(oldContent, First(oldContent, endTag) + 1, Len(oldContent))

\* C2 amended: in replace mode the result is the text up to and including
\* the first start tag, a line break, the addition, a line break, and the
\* text from the first end tag on; the scenario document with "new" gives
\* "A\n<START>\nnew\n<END>\nB\n".
C2_ReplaceExact ==
  (Called /\ InOrder) =>
     /\ err = NoError
     /\ updatedContent =
          SubSeq(oldContent, 1, First(oldContent, startTag) + Len(startTag))
          \o NL \o contentToInject \o NL
          \o SubSeq(oldContent, First(oldContent, endTag) + 1, Len(oldContent))
     /\ (oldContent = ScenarioDocument /\ contentToInject = <<"n","e","w">>)
           => updatedContent = ScenarioReplaced

C2_Witness ==
  /\ pc = "decide"
  /\ InOrder
  /\ oldContent = ScenarioDocument
  /\ contentToInject = <<"n","e","w">>
  /\ updatedContent = ScenarioReplaced

\* C4: when neither tag occurs, injectContent succeeds and returns
\* original + "\n" + startTag + "\n" + addition + "\n" + endTag + "\n";
\* "A\n" with "new" and id x gives "A\n\n<!-- START md-inject:x -->\nnew\n<!-- END md-inject:x -->\n".
C4_AppendExact ==
  (Called /\ ~Present(oldContent, startTag) /\ ~Present(oldContent, endTag)) =>
     /\ err = NoError
     /\ updatedContent =
          oldContent \o NL \o startTag \o NL \o contentToInject \o NL \o endTag \o NL
     /\ (oldContent = <<"A","\n">> /\ contentToInject = <<"n","e","w">> /\ cfg.ID = <<"x">>)
           => updatedContent = ScenarioAppended

C4_Witness ==
  /\ pc = "decide"
  /\ ~Present(oldContent, startTag)
  /\ ~Present(oldContent, endTag)
  /\ oldContent = <<"A","\n">>
  /\ contentToInject = <<"n","e","w">>
  /\ cfg.ID = <<"x">>
  /\ updatedContent = ScenarioAppended

\* C5: when exactly one of the two tags occurs, injectContent fails and
\* returns no document; with only the start tag the error names the end
\* tag, with only the end tag the error names the start tag.
C5_AsymmetricTags ==
  /\ (Called /\ Present(oldContent, startTag) /\ ~Present(oldContent, endTag)) =>
        /\ outcome = "injectError"
        /\ updatedContent = <<>>
        /\ err.msg = "missing end tag %s while start tag is present"
        /\ err.arg = endTag
  /\ (Called /\ ~Present(oldContent, startTag) /\ Present(oldContent, endTag)) =>
        /\ outcome = "injectError"
        /\ updatedContent = <<>>
        /\ err.msg = "missing start tag %s while end tag is present"
        /\ err.arg = startTag

C5_Witness ==
  /\ pc = "exited"
  /\ outcome = "injectError"
  /\ Present(oldContent, startTag)
  /\ ~Present(oldContent, endTag)
  /\ err.arg = endTag

\* C6: a run with failOnDiff set whose computed content differs from the
\* file's content ends with status 2 and the file as it was, whether or not
\* printOnly is set.
C6_FailOnDiff ==
  (pc = "exited" /\ Decided /\ cfg.failOnDiff /\ updatedContent # oldContent) =>
     /\ exitCode = 2
     /\ file = [exists |-> TRUE, data |-> oldContent]

C6_Witness ==
  /\ pc = "exited"
  /\ Decided
  /\ cfg.failOnDiff
  /\ cfg.printOnly
  /\ updatedContent # oldContent
  /\ exitCode = 2
  /\ file.data = oldContent

\* C7: the process ends with status 2 only when failOnDiff is set and the
\* computed content differs from the file's; every argument, input, file,
\* template, injection and write error ends with status 1; no-op, print-only
\* and a successful write end with status 0.
C7_ExitCodes ==
  pc = "exited" =>
     /\ exitCode = 2 => (Decided /\ cfg.failOnDiff /\ updatedContent # oldContent)
     /\ outcome \in {"usage", "flagError", "stdinError", "fileError",
                     "templateError", "injectError", "writeError"} => exitCode = 1
     /\ outcome \in {"noop", "printed", "written"} => exitCode = 0

\* C8: applyTemplate with the default template succeeds and returns the
\* content unchanged: with no --template option the text to inject is the
\* text of standard input.
C8_DefaultTemplatePassThrough ==
  (pc = "injectContent" /\ argv.template = <<>>) =>
     /\ cfg.template = defaultOutputTemplate
     /\ err = NoError
     /\ contentToInject = stdin

\* C10: in replace mode the result starts with the text up to and including
\* the first start tag and ends with the text from the first end tag on,
\* unchanged, and the two do not overlap in the result.
C10_ReplaceFrame ==
  (Called /\ InOrder) =>
     LET prefix == SubSeq(oldContent, 1, First(oldContent, startTag) + Len(startTag))
         suffix == SubSeq(oldContent, First(oldContent, endTag) + 1, Len(oldContent))
     IN  /\ err = NoError
         /\ Len(updatedContent) >= Len(prefix) + Len(contentToInject) + Len(suffix)
         /\ SubSeq(updatedContent, 1, Len(prefix)) = prefix
         /\ SubSeq(updatedContent, Len(updatedContent) - Len(suffix) + 1,
                   Len(updatedContent)) = suffix

\* replace mode on a document whose kept suffix holds a later end tag
C10_Witness ==
  /\ pc = "decide"
  /\ InOrder
  /\ Cardinality(Occurrences(oldContent, endTag)) >= 2
  /\ First(oldContent, startTag) > 0
  /\ contentToInject # <<>>

\* C3: after a first run that wrote the file, a second run with the same
\* standard input, template and id computes the content the file already
\* has, takes the no-op outcome and leaves the file as it is.
C3_SecondRunNoOp ==
  /\ (run >= 2 /\ pc = "decide") =>
        /\ oldContent = file.data
        /\ updatedContent = oldContent
  /\ (run >= 2 /\ pc = "exited" /\ outcome # "stdinError") =>
        /\ outcome = "noop"
        /\ exitCode = 0
        /\ file.data = oldContent

\* the outcome the comparison of the contents and the two flags select
Selected ==
  IF updatedContent = oldContent THEN {"noop"}
  ELSE IF cfg.failOnDiff THEN {"wouldChange"}
  ELSE IF cfg.printOnly THEN {"printed"}
  ELSE {"written", "writeError"}

PrintsContent ==
  /\ stdout' # stdout
  /\ \E k \in 1..Len(stdout') : stdout'[k].msg = "%v"

C9_Step ==
  /\ pc = "decide" =>
        /\ pc' = "exited"
        /\ outcome' \in Selected
        /\ outcome' = "noop" => (exitCode' = 0 /\ file' = file /\ ~PrintsContent)
        /\ outcome' = "wouldChange" => (exitCode' = 2 /\ file' = file /\ ~PrintsContent)
        /\ outcome' = "printed" =>
              /\ exitCode' = 0
              /\ file' = file
              /\ stdout' = stdout \o <<Line("%v", updatedContent)>>
        /\ outcome' = "written" =>
              /\ exitCode' = 0
              /\ file' = [file EXCEPT !.data = updatedContent]
              /\ ~PrintsContent
  /\ file' # file => (pc = "decide" /\ Selected = {"written", "writeError"})
  /\ PrintsContent => (pc = "decide" /\ Selected = {"printed"})

\* C9: after a successful injection exactly one outcome is taken, in the
\* order no-op, would-change (failOnDiff), print (printOnly), write; the
\* file is written only in the last one and standard output receives the
\* updated content only in the print outcome.
C9_Orchestration == [][C9_Step]_vars

\* the no-op outcome is taken although both flags are set
C9_Witness ==
  /\ pc = "exited"
  /\ outcome = "noop"
  /\ cfg.failOnDiff
  /\ cfg.printOnly
  /\ updatedContent = oldContent

====
